---- MODULE Spec2Model ----
(***************************************************************************)
(* Twitter Cookie Sync extension: the background service worker            *)
(* (src/extension/background.js) and the popup (src/extension/popup.js).   *)
(*                                                                         *)
(* Every running call of syncCookies() is an Attempt and occupies a slot   *)
(* of att; the slot is free again once the caller has consumed the         *)
(* outcome.  An asynchronous platform call (storage get, cookies.getAll,   *)
(* fetch) takes effect at the moment it is issued; the code after the      *)
(* await runs in a later step, so other handlers interleave at each await. *)
(* Time is counted in units of 1000 ms.                                    *)
(*                                                                         *)
(* The handlers say nothing about how often the outside world acts.  A     *)
(* specification wraps each external event in External, which draws on the      *)
(* budget evLeft, and each step of the program itself in Internal.              *)
(***************************************************************************)
EXTENDS Integers, Sequences, FiniteSets

\* ---------------------------------------------------------------- bounds
\* calls of syncCookies() that may be running at the same time
MaxAttempts == 2
\* external events (triggers, cookie changes, clicks, clock ticks) of a run
MaxEvents == 2

\* ------------------------------------------------------ program constants
InstallDelay == 1
StartupDelay == 2
CookieDelay == 2

None == "<undefined>"
NotConfiguredMsg == "Not configured"
NotLoggedInMsg == "Not logged into Twitter"
UnknownErrorMsg == "Unknown error"
\* the message of the SyntaxError response.json() throws on a body that is
\* not JSON, and of the TypeError fetch() rejects with
JsonErrorMsg == "Unexpected end of JSON input"
FetchErrorMsg == "Failed to fetch"

\* ------------------------------------------------------------ cookie jar
Names == {"auth_token", "ct0"}
Values == {"", "v1", "v2"}
domains == <<"twitter.com", "x.com">>
JarDomains == {domains[i] : i \in 1..Len(domains)}

\* JavaScript truthiness of a cookie value or of a property that may be
\* undefined
Truthy(v) == v # None /\ v # ""

EmptyCookies == [n \in Names |-> None]

\* chrome.cookies.getAll({domain}): the cookies of one domain
getAll(j, d) == j[d]

\* the merge that keeps the value read first
MergeCookiesFirstWins(cookies, domainCookies) ==
  [n \in Names |-> IF cookies[n] # None THEN cookies[n] ELSE domainCookies[n]]

\* for (const cookie of domainCookies) cookies[cookie.name] = cookie.value
MergeCookies(cookies, domainCookies) ==
  [n \in Names |-> IF domainCookies[n] # None THEN domainCookies[n] ELSE cookies[n]]

\* the check with the anti-forgery token forgotten
MissingRequiredAuthOnly(cookies) ==
  ~Truthy(cookies["auth_token"])

\* if (!cookies.auth_token || !cookies.ct0)
MissingRequired(cookies) ==
  ~Truthy(cookies["auth_token"]) \/ ~Truthy(cookies["ct0"])

\* ------------------------------------------------------------ text fields
\* A text field of the popup is a sequence of characters.
IsSpace(c) == c = " "

RECURSIVE TrimLeft(_)
TrimLeft(s) ==
  IF s # <<>> /\ IsSpace(Head(s)) THEN TrimLeft(Tail(s)) ELSE s

RECURSIVE TrimRight(_)
TrimRight(s) ==
  IF s # <<>> /\ IsSpace(s[Len(s)]) THEN TrimRight(SubSeq(s, 1, Len(s) - 1)) ELSE s

\* String.prototype.trim
Trim(s) == TrimLeft(TrimRight(s))

\* .replace(/\/$/, '')
StripTrailingSlash(s) ==
  IF s # <<>> /\ s[Len(s)] = "/" THEN SubSeq(s, 1, Len(s) - 1) ELSE s

UrlInputs == {<<>>, <<" ">>, <<"h">>, <<" ", "h", "/">>, <<"h", "/", "/">>}
KeyInputs == {<<>>, <<"k", " ">>}

\* chrome.storage.sync before the first save: no key is stored
NoConfig == [stored |-> FALSE, backendUrl |-> <<>>, apiKey |-> <<>>]

\* the check with the API key forgotten
NotConfiguredUrlOnly(cfg) ==
  ~cfg.stored \/ cfg.backendUrl = <<>>

\* if (!config.backendUrl || !config.apiKey)
NotConfigured(cfg) ==
  ~cfg.stored \/ cfg.backendUrl = <<>> \/ cfg.apiKey = <<>>

\* --------------------------------------------------------------- backend
\* What the backend (a black box) may answer to one POST.
Responses ==
  { [ok |-> TRUE,  usable |-> TRUE,  message |-> "ok", detail |-> None],
    [ok |-> TRUE,  usable |-> TRUE,  message |-> None, detail |-> None],
    [ok |-> TRUE,  usable |-> FALSE, message |-> None, detail |-> None],
    [ok |-> FALSE, usable |-> TRUE,  message |-> None, detail |-> "bad key"],
    [ok |-> FALSE, usable |-> TRUE,  message |-> None, detail |-> None],
    [ok |-> FALSE, usable |-> FALSE, message |-> None, detail |-> None] }

NoResponse == [ok |-> FALSE, usable |-> FALSE, message |-> "-", detail |-> "-"]

\* ---------------------------------------------------------------- state
VARIABLES
  config,      \* chrome.storage.sync: backendUrl, apiKey
  jar,         \* the browser's cookie jar, per domain
  lastSync,    \* chrome.storage.local lastSync; 0 = absent
  clock,       \* Date.now()
  att,         \* the running calls of syncCookies(), by slot
  order,       \* the Attempts whose read is done and not yet uploaded, oldest read first
  timers,      \* pending setTimeout callbacks
  installed,   \* onInstalled has fired
  started,     \* onStartup has fired
  backend,     \* the backend's copy of the cookies
  gc,          \* the popup's getCookies request
  evLeft,      \* external events still to come in this run
  bookmarks,   \* the web page's localStorage item twitter_scraper_bookmarks
  page,        \* the React state of the web page's App component
  loads        \* the profile loads of the web page that have not settled

prog == <<config, jar, lastSync, clock, att, order, timers, installed, started,
          backend, gc>>
web == <<bookmarks, page, loads>>
vars == <<prog, evLeft, web>>

Slots == 1..MaxAttempts
Attempts == {a \in Slots : att[a].pc # "free"}

NoOutcome == [success |-> FALSE, text |-> "-"]
Success(m) == [success |-> TRUE, text |-> m]
Failure(e) == [success |-> FALSE, text |-> e]

NoAttemptConfig == [stored |-> FALSE, backendUrl |-> <<>>, apiKey |-> <<>>]

\* a slot no call of syncCookies() occupies
Free ==
  [ pc |-> "free",
    reply |-> FALSE,
    cfg |-> NoAttemptConfig,
    cookies |-> EmptyCookies,
    di |-> 0,
    req |-> "none",
    resp |-> NoResponse,
    outcome |-> NoOutcome,
    posts |-> 0,
    reads |-> 0,
    wrote |-> FALSE,
    stale |-> FALSE ]

\* a call that uses the configuration of the call before it when there is one
NewAttemptCachedConfig(reply) ==
  [Free EXCEPT !.pc = "config", !.reply = reply,
               !.cfg = IF \E b \in Slots : att[b].pc \notin {"free", "done"}
                         THEN att[CHOOSE b \in Slots : att[b].pc \notin {"free", "done"}].cfg
                         ELSE config]

\* a call that finds an earlier failure and gives up at once
NewAttemptLatched(reply) ==
  IF \E b \in Slots : att[b].pc = "done" /\ ~att[b].outcome.success
    THEN [Free EXCEPT !.pc = "done", !.reply = reply,
                      !.outcome = [success |-> FALSE, text |-> "Not configured"]]
    ELSE [Free EXCEPT !.pc = "config", !.reply = reply, !.cfg = config]

\* a fresh call of syncCookies(): line 65 issues the storage read.  reply
\* tells whether the caller passes the result on (sendResponse, line 110)
\* or only logs it.  posts, reads, wrote and stale record what the call has
\* done: POSTs issued, getAll calls, lastSync written, and whether the
\* backend has stored a newer read while this one was on its way.
NewAttempt(reply) ==
  [Free EXCEPT !.pc = "config", !.reply = reply, !.cfg = config]

\* chrome.storage.sync and the cookie jar outlive the service worker, and
\* storage.sync is shared with the user's other browsers: the worker starts
\* with whatever they hold.
ValidConfig == [stored |-> TRUE, backendUrl |-> <<"h">>, apiKey |-> <<"k">>]
ConfigInits == {NoConfig, ValidConfig, [ValidConfig EXCEPT !.apiKey = <<>>]}

LoggedOutJar == [d \in JarDomains |-> EmptyCookies]
LoggedInJar ==
  [d \in JarDomains |-> IF d = "x.com" THEN [n \in Names |-> "v1"] ELSE EmptyCookies]
JarInits == {LoggedOutJar, LoggedInJar}

Idle == [pc |-> "idle", di |-> 0, cookies |-> EmptyCookies]

\* localStorage.getItem() of a key never set
NoItem == [present |-> FALSE, text |-> <<>>]

\* part_002 lines 47-60: the useState() initial values.  The search box and
\* the queries are sequences of characters; tweets is the query whose
\* results are shown; searched lists the arguments of the searchTweets()
\* calls made, pending those not yet answered, and lastClicked is the user
\* of the last profile click.
FirstRender ==
  [ query |-> <<>>,
    loading |-> FALSE,
    tweets |-> <<>>,
    searched |-> <<>>,
    pending |-> <<>>,
    view |-> "search",
    profileLoading |-> FALSE,
    selectedUser |-> None,
    userTimeline |-> None,
    lastClicked |-> None ]

InitWith(cfgs, jars, events) ==
  /\ bookmarks = NoItem
  /\ page = FirstRender
  /\ loads = <<>>
  /\ config \in cfgs
  /\ jar \in jars
  /\ lastSync = 0
  /\ clock = 1
  /\ att = [a \in Slots |-> Free]
  /\ order = <<>>
  /\ timers = <<>>
  /\ installed = FALSE
  /\ started = FALSE
  /\ backend = [cookies |-> EmptyCookies]
  /\ gc = Idle
  /\ evLeft = events

Init == InitWith(ConfigInits, JarInits, MaxEvents)

\* ------------------------------------------------------------- syncCookies
FreeSlots == Slots \ Attempts

\* a trigger calls syncCookies()
StartAttempt(reply) ==
  /\ FreeSlots # {}
  /\ LET a == CHOOSE x \in FreeSlots : \A y \in FreeSlots : x <= y
     IN att' = [att EXCEPT ![a] = NewAttempt(reply)]

Without(seq, a) == SelectSeq(seq, LAMBDA x : x # a)

\* an Attempt that has returned outcome o: its locals are gone
Returned(r, o) ==
  [r EXCEPT !.pc = "done", !.outcome = o, !.cfg = NoAttemptConfig,
            !.cookies = EmptyCookies, !.di = 0, !.req = "none",
            !.resp = NoResponse]

\* syncCookies() returns outcome o
Return(a, o) ==
  /\ att' = [att EXCEPT ![a] = Returned(@, o)]
  /\ order' = Without(order, a)

\* the read served from a copy of the cookies taken earlier, not from the jar
ReadDomainFromCopy(a, i) ==
  /\ att' = [att EXCEPT ![a].pc = "reading",
                        ![a].di = i,
                        ![a].reads = @ + 1,
                        ![a].cookies = MergeCookies(@, getAll(LoggedInJar, domains[i]))]
  /\ order' = IF i = Len(domains) THEN Append(order, a) ELSE order

\* getTwitterCookies() of Attempt a queries domain number i
ReadDomain(a, i) ==
  /\ att' = [att EXCEPT ![a].pc = "reading",
                        ![a].di = i,
                        ![a].reads = @ + 1,
                        ![a].cookies = MergeCookies(@, getAll(jar, domains[i]))]
  /\ order' = IF i = Len(domains) THEN Append(order, a) ELSE order

\* lines 67-72: the configuration check; getTwitterCookies() starts and
\* queries the first domain
CheckConfig(a) ==
  /\ att[a].pc = "config"
  /\ IF NotConfigured(att[a].cfg)
       THEN Return(a, Failure(NotConfiguredMsg))
       ELSE ReadDomain(a, 1)
  /\ UNCHANGED <<config, jar, lastSync, clock, timers, installed, started,
                 backend, gc>>

\* lines 53-58: the next domain of the loop is queried
ReadNextDomain(a) ==
  /\ att[a].pc = "reading"
  /\ att[a].di < Len(domains)
  /\ ReadDomain(a, att[a].di + 1)
  /\ UNCHANGED <<config, jar, lastSync, clock, timers, installed, started,
                 backend, gc>>

\* lines 60, 75-88: getTwitterCookies() returns; the required cookies are
\* checked and the POST is issued
CheckCookies(a) ==
  /\ att[a].pc = "reading"
  /\ att[a].di = Len(domains)
  /\ IF MissingRequired(att[a].cookies)
       THEN Return(a, Failure(NotLoggedInMsg))
       ELSE /\ att' = [att EXCEPT ![a].pc = "fetching",
                                  ![a].req = "sent",
                                  ![a].posts = @ + 1]
            /\ UNCHANGED order
  /\ UNCHANGED <<config, jar, lastSync, clock, timers, installed, started,
                 backend, gc>>

\* lines 81-88: the request fetch() sends for a call with locals r
PostRequest(r) ==
  [ url |-> r.cfg.backendUrl \o <<"/api/cookies/sync">>,
    apiKey |-> r.cfg.apiKey,
    cookies |-> r.cookies ]

\* the Attempts whose read is older than a's and whose POST is still to come
\* or on its way
OlderReads(a) ==
  {order[i] : i \in {j \in 1..Len(order) : \E k \in (j + 1)..Len(order) : order[k] = a}}

\* the backend receives the POST of Attempt a and answers r; a 2xx answer
\* means it has stored the body.  The answer is on its way to the extension
\* or is lost.
BackendHandles(a, r, lost) ==
  /\ att[a].req = "sent"
  /\ att' = [b \in Slots |->
               IF b = a
                 THEN [att[a] EXCEPT !.req = IF lost THEN "lost" ELSE "answered",
                                     !.resp = IF lost THEN NoResponse ELSE r]
                 ELSE IF r.ok /\ b \in OlderReads(a)
                 THEN [att[b] EXCEPT !.stale = TRUE]
                 ELSE att[b]]
  /\ order' = Without(order, a)
  /\ backend' = IF r.ok THEN [cookies |-> att[a].cookies] ELSE backend
  /\ UNCHANGED <<config, jar, lastSync, clock, timers, installed, started, gc>>

\* line 99: result.detail || 'Unknown error'
FailureReason(result) ==
  IF Truthy(result.detail) THEN result.detail ELSE UnknownErrorMsg

\* the response handling with lastSync stored before the status is looked at
ResponseArrivesStoresFirst(a) ==
  /\ att[a].pc = "fetching"
  /\ att[a].req = "answered"
  /\ lastSync' = clock
  /\ IF ~att[a].resp.usable
       THEN Return(a, Failure(JsonErrorMsg))
       ELSE IF att[a].resp.ok
       THEN /\ att' = [att EXCEPT ![a].pc = "stored", ![a].req = "none",
                                  ![a].wrote = TRUE]
            /\ UNCHANGED order
       ELSE Return(a, Failure(FailureReason(att[a].resp)))
  /\ UNCHANGED <<config, jar, clock, timers, installed, started, backend, gc>>

\* the response handling that removes lastSync when the sync has failed
ResponseArrivesClearsOnFailure(a) ==
  /\ att[a].pc = "fetching"
  /\ att[a].req = "answered"
  /\ IF ~att[a].resp.usable
       THEN /\ Return(a, Failure(JsonErrorMsg))
            /\ lastSync' = 0
       ELSE IF att[a].resp.ok
       THEN /\ att' = [att EXCEPT ![a].pc = "stored", ![a].req = "none",
                                  ![a].wrote = TRUE]
            /\ lastSync' = clock
            /\ UNCHANGED order
       ELSE /\ Return(a, Failure(FailureReason(att[a].resp)))
            /\ lastSync' = 0
  /\ UNCHANGED <<config, jar, clock, timers, installed, started, backend, gc>>

\* lines 90-100 and the catch of line 101: the response arrives and its
\* body is parsed
ResponseArrives(a) ==
  /\ att[a].pc = "fetching"
  /\ att[a].req = "answered"
  /\ IF ~att[a].resp.usable
       THEN /\ Return(a, Failure(JsonErrorMsg))
            /\ UNCHANGED lastSync
       ELSE IF att[a].resp.ok
       THEN /\ att' = [att EXCEPT ![a].pc = "stored", ![a].req = "none",
                                  ![a].wrote = TRUE]
            /\ lastSync' = clock
            /\ UNCHANGED order
       ELSE /\ Return(a, Failure(FailureReason(att[a].resp)))
            /\ UNCHANGED lastSync
  /\ UNCHANGED <<config, jar, clock, timers, installed, started, backend, gc>>

\* line 96: the storage write is done, syncCookies() returns success
ReturnSuccess(a) ==
  /\ att[a].pc = "stored"
  /\ Return(a, Success(att[a].resp.message))
  /\ UNCHANGED <<config, jar, lastSync, clock, timers, installed, started,
                 backend, gc>>

\* fetch() rejecting with no catch around it: the error leaves syncCookies()
FetchFailsUncaught(a) ==
  /\ att[a].pc = "fetching"
  /\ att[a].req \in {"sent", "lost"}
  /\ att' = [att EXCEPT ![a].pc = "threw", ![a].req = "none"]
  /\ order' = Without(order, a)
  /\ UNCHANGED <<config, jar, lastSync, clock, timers, installed, started,
                 backend, gc>>

\* a rejected fetch() answered by sending the request again
FetchFailsRetries(a) ==
  /\ att[a].pc = "fetching"
  /\ att[a].req \in {"sent", "lost"}
  /\ att' = [att EXCEPT ![a].req = "sent", ![a].posts = @ + 1]
  /\ UNCHANGED <<config, jar, lastSync, clock, order, timers, installed,
                 started, backend, gc>>

\* lines 101-104: fetch() rejects: the request or its answer was lost
FetchFails(a) ==
  /\ att[a].pc = "fetching"
  /\ att[a].req \in {"sent", "lost"}
  /\ Return(a, Failure(FetchErrorMsg))
  /\ UNCHANGED <<config, jar, lastSync, clock, timers, installed, started,
                 backend, gc>>

\* lines 18-23, 32-33, 41-42, 110, 133: the caller takes the outcome (logs
\* it, or passes it to sendResponse); the call is over
Settle(a) ==
  /\ att[a].pc = "done"
  /\ att' = [att EXCEPT ![a] = Free]
  /\ UNCHANGED <<config, jar, lastSync, clock, order, timers, installed,
                 started, backend, gc>>

\* ---------------------------------------------------------------- triggers
\* lines 15-25: the periodic cookieSync alarm fires
OnAlarm ==
  /\ StartAttempt(FALSE)
  /\ UNCHANGED <<config, jar, lastSync, clock, order, timers, installed,
                 started, backend, gc>>

\* setTimeout(callback, delay)
SetTimeout(kind, delay) ==
  timers' = Append(timers, [kind |-> kind, rem |-> delay])

\* lines 28-35
OnInstalled ==
  /\ ~installed
  /\ installed' = TRUE
  /\ SetTimeout("installed", InstallDelay)
  /\ UNCHANGED <<config, jar, lastSync, clock, att, order, started, backend, gc>>

\* lines 38-44
OnStartup ==
  /\ ~started
  /\ started' = TRUE
  /\ SetTimeout("startup", StartupDelay)
  /\ UNCHANGED <<config, jar, lastSync, clock, att, order, installed, backend, gc>>

RemoveAt(s, i) == SubSeq(s, 1, i - 1) \o SubSeq(s, i + 1, Len(s))

\* the callback of a timer whose delay has elapsed runs: lines 32, 41, 133
TimerFires(i) ==
  /\ timers[i].rem = 0
  /\ timers' = RemoveAt(timers, i)
  /\ StartAttempt(FALSE)
  /\ UNCHANGED <<config, jar, lastSync, clock, order, installed, started,
                 backend, gc>>

\* 1000 ms pass
Tick ==
  /\ clock' = clock + 1
  /\ timers' = [i \in 1..Len(timers) |->
                  [timers[i] EXCEPT !.rem = IF @ > 0 THEN @ - 1 ELSE 0]]
  /\ UNCHANGED <<config, jar, lastSync, att, order, installed, started,
                 backend, gc>>

\* lines 108-112: the popup's syncNow message
OnSyncNow ==
  /\ StartAttempt(TRUE)
  /\ UNCHANGED <<config, jar, lastSync, clock, order, timers, installed,
                 started, backend, gc>>

\* --------------------------------------------------------- cookie changes
\* the domain of a changed cookie, as the string of its characters
EventDomains == {"twitter.com", "x.com", "notx.com", "example.org"}

Chars(d) ==
  CASE d = "twitter.com" -> <<"t", "w", "i", "t", "t", "e", "r", ".", "c", "o", "m">>
    [] d = "x.com" -> <<"x", ".", "c", "o", "m">>
    [] d = "notx.com" -> <<"n", "o", "t", "x", ".", "c", "o", "m">>
    [] d = "example.org" -> <<"e", "x", "a", "m", "p", "l", "e", ".", "o", "r", "g">>

\* String.prototype.includes
Includes(s, t) ==
  \E i \in 0..(Len(s) - Len(t)) : SubSeq(s, i + 1, i + Len(t)) = t

\* line 127
DomainMatches(d) ==
  Includes(Chars(d), Chars("twitter.com")) \/ Includes(Chars(d), Chars("x.com"))

\* the listener without the test of the cookie's name
OnChangedAnyName(removed, d, n) ==
  IF ~removed /\ DomainMatches(d)
    THEN SetTimeout("cookie", CookieDelay)
    ELSE UNCHANGED timers

\* the listener without the test of changeInfo.removed
OnChangedIgnoresRemoved(removed, d, n) ==
  IF DomainMatches(d) /\ n = "auth_token"
    THEN SetTimeout("cookie", CookieDelay)
    ELSE UNCHANGED timers

\* lines 121-137: the onChanged listener
OnChanged(removed, d, n) ==
  IF ~removed /\ DomainMatches(d) /\ n = "auth_token"
    THEN SetTimeout("cookie", CookieDelay)
    ELSE UNCHANGED timers

\* a page or the browser writes cookie n of domain d; the listener is told
CookieSet(d, n, v) ==
  /\ jar' = IF d \in JarDomains THEN [jar EXCEPT ![d][n] = v] ELSE jar
  /\ OnChanged(FALSE, d, n)
  /\ UNCHANGED <<config, lastSync, clock, att, order, installed, started,
                 backend, gc>>

\* cookie n of domain d is removed; the listener is told
CookieRemoved(d, n) ==
  /\ d \in JarDomains => jar[d][n] # None
  /\ jar' = IF d \in JarDomains THEN [jar EXCEPT ![d][n] = None] ELSE jar
  /\ OnChanged(TRUE, d, n)
  /\ UNCHANGED <<config, lastSync, clock, att, order, installed, started,
                 backend, gc>>

\* ------------------------------------------------------------------ popup
\* popup.js lines 22-33: the save button
Save(urlInput, keyInput) ==
  LET backendUrl == StripTrailingSlash(Trim(urlInput))
      apiKey == Trim(keyInput)
  IN /\ IF backendUrl = <<>> \/ apiKey = <<>>
          THEN UNCHANGED config
          ELSE config' = [stored |-> TRUE, backendUrl |-> backendUrl, apiKey |-> apiKey]
     /\ UNCHANGED <<jar, lastSync, clock, att, order, timers, installed,
                    started, backend, gc>>

\* the getCookies branch calling syncCookies() as well
GetCookiesAndSync ==
  /\ gc.pc = "idle"
  /\ gc' = [pc |-> "reading", di |-> 1,
            cookies |-> MergeCookies(EmptyCookies, getAll(jar, domains[1]))]
  /\ StartAttempt(FALSE)
  /\ UNCHANGED <<config, jar, lastSync, clock, order, timers, installed,
                 started, backend>>

\* popup.js line 63, background.js lines 114-117: getTwitterCookies() starts
\* and queries the first domain
GetCookies ==
  /\ gc.pc = "idle"
  /\ gc' = [pc |-> "reading", di |-> 1,
            cookies |-> MergeCookies(EmptyCookies, getAll(jar, domains[1]))]
  /\ UNCHANGED <<config, jar, lastSync, clock, att, order, timers, installed,
                 started, backend>>

\* the popup's read queued behind the uploads and the pending callbacks
GetCookiesNextAfterUpload ==
  /\ \A a \in Slots : att[a].pc # "fetching"
  /\ timers = <<>>
  /\ gc.pc = "reading"
  /\ IF gc.di < Len(domains)
       THEN gc' = [gc EXCEPT !.di = @ + 1,
                             !.cookies = MergeCookies(@, getAll(jar, domains[gc.di + 1]))]
       ELSE gc' = Idle
  /\ UNCHANGED <<config, jar, lastSync, clock, att, order, timers, installed,
                 started, backend>>

\* lines 53-60 for the popup's request: the next domain, then the response
GetCookiesNext ==
  /\ gc.pc = "reading"
  /\ IF gc.di < Len(domains)
       THEN gc' = [gc EXCEPT !.di = @ + 1,
                             !.cookies = MergeCookies(@, getAll(jar, domains[gc.di + 1]))]
       ELSE gc' = Idle
  /\ UNCHANGED <<config, jar, lastSync, clock, att, order, timers, installed,
                 started, backend>>

\* -------------------------------------------------- web page: bookmarks
\* A tweet is its id and the rest of its fields.
TweetIds == {"t1", "t2", "t3"}
TweetTexts == {"a", "b"}
Tweets == [id : TweetIds, text : TweetTexts]

\* JSON.stringify of a list of tweets: the fields of the tweets, in order
RECURSIVE Stringify(_)
Stringify(l) ==
  IF l = <<>> THEN <<>> ELSE <<Head(l).id, Head(l).text>> \o Stringify(Tail(l))

\* JSON.parse of such a text
RECURSIVE Parse(_)
Parse(s) ==
  IF Len(s) < 2 THEN <<>>
  ELSE <<[id |-> s[1], text |-> s[2]]>> \o Parse(SubSeq(s, 3, Len(s)))

\* part_001 lines 5-9, for a given value of the item
Bookmarks(item) == IF item.present THEN Parse(item.text) ELSE <<>>

getBookmarks == Bookmarks(bookmarks)

\* localStorage.setItem(BOOKMARKS_KEY, JSON.stringify(l))
SetItem(l) == bookmarks' = [present |-> TRUE, text |-> Stringify(l)]

\* saveBookmark without the test for an entry of the same id
saveBookmarkUnchecked(tweet) ==
  /\ SetItem(<<tweet>> \o getBookmarks)
  /\ UNCHANGED <<page, loads>>

\* part_001 lines 11-17
saveBookmark(tweet) ==
  /\ IF \E i \in 1..Len(getBookmarks) : getBookmarks[i].id = tweet.id
       THEN UNCHANGED bookmarks
       ELSE SetItem(<<tweet>> \o getBookmarks)
  /\ UNCHANGED <<page, loads>>

\* part_001 lines 19-22
removeBookmark(tweetId) ==
  /\ SetItem(SelectSeq(getBookmarks, LAMBDA b : b.id # tweetId))
  /\ UNCHANGED <<page, loads>>

\* part_001 lines 24-26
isBookmarked(tweetId) ==
  \E i \in 1..Len(getBookmarks) : getBookmarks[i].id = tweetId

\* part_001 lines 28-30
clearAllBookmarks ==
  /\ bookmarks' = NoItem
  /\ UNCHANGED <<page, loads>>

\* part_002 lines 122-130: the bookmark button of a tweet card
handleBookmark(tweet) ==
  IF isBookmarked(tweet.id)
    THEN UNCHANGED web
    ELSE saveBookmark(tweet)

\* ----------------------------------------------------- web page: search
QueryInputs == {<<>>, <<" ">>, <<"o", "l", "d">>}
TrendNames == {<<"#", "A", "I">>, <<"R", "e", "a", "c", "t">>}

\* part_002 line 324: the user edits the search box
TypeQuery(q) ==
  /\ page' = [page EXCEPT !.query = q]
  /\ UNCHANGED <<bookmarks, loads>>

\* part_002 lines 72-82, up to the call of searchTweets(): what
\* handleSearch() does to the state p when the render it was made in had
\* the search box at query
SearchFor(p, query) ==
  IF Trim(query) = <<>>
    THEN p
    ELSE [p EXCEPT !.loading = TRUE,
                   !.tweets = <<>>,
                   !.view = "search",
                   !.searched = Append(@, query),
                   !.pending = Append(@, query)]

\* part_002 line 319: the search form is submitted
handleSearch ==
  /\ page' = SearchFor(page, page.query)
  /\ UNCHANGED <<bookmarks, loads>>

\* part_002 lines 351-354: a trending-topic button is clicked.  setQuery()
\* takes effect at the next render; handleSearch() is the one of this
\* render and sees this render's query.
ClickTrend(name) ==
  /\ page' = [SearchFor(page, page.query) EXCEPT !.query = name]
  /\ UNCHANGED <<bookmarks, loads>>

\* part_002 lines 82-96: searchTweets() number i settles
SearchSettles(i, ok) ==
  /\ i \in 1..Len(page.pending)
  /\ page' = [page EXCEPT !.pending = RemoveAt(@, i),
                          !.tweets = IF ok THEN page.pending[i] ELSE @,
                          !.loading = FALSE]
  /\ UNCHANGED <<bookmarks, loads>>

\* --------------------------------------------------- web page: profiles
Users == {"A", "B"}

\* part_002 lines 99-110: a user name is clicked; both requests are sent
\* (the names of Users are non-empty, so the return of line 100 is not taken)
handleUserClick(username) ==
  /\ page' = [page EXCEPT !.profileLoading = TRUE, !.view = "profile",
                          !.lastClicked = username]
  /\ loads' = Append(loads, [user |-> username, profile |-> "wait", tweets |-> "wait"])
  /\ UNCHANGED bookmarks

\* part_000 lines 64-71: getUserProfile() of load i settles
ProfileResponds(i, ok) ==
  /\ i \in 1..Len(loads)
  /\ loads[i].profile = "wait"
  /\ loads' = [loads EXCEPT ![i].profile = IF ok THEN "ok" ELSE "failed"]
  /\ UNCHANGED <<bookmarks, page>>

\* part_000 lines 73-78: getUserTweets() of load i settles
TweetsResponds(i, ok) ==
  /\ i \in 1..Len(loads)
  /\ loads[i].tweets = "wait"
  /\ loads' = [loads EXCEPT ![i].tweets = IF ok THEN "ok" ELSE "failed"]
  /\ UNCHANGED <<bookmarks, page>>

\* part_002 lines 107-119: Promise.all of load i settles, fulfilled when
\* both requests are, rejected as soon as one is
LoadSettles(i) ==
  /\ i \in 1..Len(loads)
  /\ IF loads[i].profile = "ok" /\ loads[i].tweets = "ok"
       THEN page' = [page EXCEPT !.selectedUser = loads[i].user,
                                !.userTimeline = loads[i].user,
                                !.profileLoading = FALSE]
       ELSE /\ "failed" \in {loads[i].profile, loads[i].tweets}
            /\ page' = [page EXCEPT !.view = "search", !.profileLoading = FALSE]
  /\ loads' = RemoveAt(loads, i)
  /\ UNCHANGED bookmarks

\* ------------------------------------------------------------ the program
\* an event of the outside world
External(A) ==
  /\ evLeft > 0
  /\ evLeft' = evLeft - 1
  /\ A
  /\ UNCHANGED web

\* a step of the program, the network or the backend
Internal(A) ==
  /\ A
  /\ UNCHANGED <<evLeft, web>>

\* a click or a keystroke on the web page
PageEvent(A) ==
  /\ evLeft > 0
  /\ evLeft' = evLeft - 1
  /\ A
  /\ UNCHANGED prog

\* a response reaching the web page
PageStep(A) ==
  /\ A
  /\ UNCHANGED <<evLeft, prog>>

Next ==
  \/ External(OnAlarm)
  \/ External(OnInstalled)
  \/ External(OnStartup)
  \/ External(Tick)
  \/ External(OnSyncNow)
  \/ \E d \in EventDomains, n \in Names, v \in Values : External(CookieSet(d, n, v))
  \/ \E d \in EventDomains, n \in Names : External(CookieRemoved(d, n))
  \/ \E u \in UrlInputs, k \in KeyInputs : External(Save(u, k))
  \/ External(GetCookies)
  \/ Internal(GetCookiesNext)
  \/ \E i \in 1..Len(timers) : Internal(TimerFires(i))
  \/ \E a \in Slots : Internal(CheckConfig(a))
  \/ \E a \in Slots : Internal(ReadNextDomain(a))
  \/ \E a \in Slots : Internal(CheckCookies(a))
  \/ \E a \in Slots, r \in Responses, lost \in BOOLEAN : Internal(BackendHandles(a, r, lost))
  \/ \E a \in Slots : Internal(ResponseArrives(a))
  \/ \E a \in Slots : Internal(ReturnSuccess(a))
  \/ \E a \in Slots : Internal(FetchFails(a))
  \/ \E a \in Slots : Internal(Settle(a))

Spec == Init /\ [][Next]_vars

\* Two Attempts and a cookie write between their reads: the triggers that
\* call syncCookies() directly, one more event than Spec allows.
RaceInit == InitWith({ValidConfig}, {LoggedInJar}, MaxEvents + 1)

RaceNext ==
  \/ External(OnAlarm)
  \/ External(OnSyncNow)
  \/ \E d \in JarDomains, n \in Names, v \in Values : External(CookieSet(d, n, v))
  \/ \E a \in Slots : Internal(CheckConfig(a))
  \/ \E a \in Slots : Internal(ReadNextDomain(a))
  \/ \E a \in Slots : Internal(CheckCookies(a))
  \/ \E a \in Slots, r \in Responses, lost \in BOOLEAN : Internal(BackendHandles(a, r, lost))
  \/ \E a \in Slots : Internal(ResponseArrives(a))
  \/ \E a \in Slots : Internal(ReturnSuccess(a))
  \/ \E a \in Slots : Internal(FetchFails(a))
  \/ \E a \in Slots : Internal(Settle(a))

RaceSpec == RaceInit /\ [][RaceNext]_vars

\* The steps of the program itself: the event loop resumes every settled
\* await and runs every due callback.  The network and the backend owe
\* nothing, and no trigger has to come.
Resume(a) ==
  \/ CheckConfig(a)
  \/ ReadNextDomain(a)
  \/ CheckCookies(a)
  \/ ResponseArrives(a)
  \/ ReturnSuccess(a)
  \/ Settle(a)

\* The alarm and syncNow come as often as they like.
LiveInit == InitWith({ValidConfig}, {LoggedInJar}, 0)

LiveNext ==
  \/ Internal(OnAlarm)
  \/ Internal(OnSyncNow)
  \/ \E a \in Slots : Internal(CheckConfig(a))
  \/ \E a \in Slots : Internal(ReadNextDomain(a))
  \/ \E a \in Slots : Internal(CheckCookies(a))
  \/ \E a \in Slots, r \in Responses, lost \in BOOLEAN : Internal(BackendHandles(a, r, lost))
  \/ \E a \in Slots : Internal(ResponseArrives(a))
  \/ \E a \in Slots : Internal(ReturnSuccess(a))
  \/ \E a \in Slots : Internal(FetchFails(a))
  \/ \E a \in Slots : Internal(Settle(a))

LiveSpec ==
  /\ LiveInit
  /\ [][LiveNext]_vars
  /\ \A a \in Slots : WF_vars(Internal(Resume(a)))

\* The cookie listener and its timers: cookie writes and removals, the
\* passing of time and the callbacks, through to the Attempts they start.
\* The backend is out of reach here: every POST ends in a rejected fetch().
DebounceValues == {"v2"}
DebounceInit == InitWith({ValidConfig}, {LoggedInJar}, MaxEvents + 3)

DebounceNext ==
  \/ External(Tick)
  \/ \E d \in EventDomains, n \in Names, v \in DebounceValues : External(CookieSet(d, n, v))
  \/ \E d \in EventDomains, n \in Names : External(CookieRemoved(d, n))
  \/ \E i \in 1..Len(timers) : Internal(TimerFires(i))
  \/ \E a \in Slots : Internal(CheckConfig(a))
  \/ \E a \in Slots : Internal(ReadNextDomain(a))
  \/ \E a \in Slots : Internal(CheckCookies(a))
  \/ \E a \in Slots : Internal(FetchFails(a))
  \/ \E a \in Slots : Internal(Settle(a))

DebounceSpec == DebounceInit /\ [][DebounceNext]_vars

\* The alarm alone, with no user at the popup: chrome.alarms fires the
\* periodic cookieSync alarm again and again (lines 10-12), and the event
\* loop runs the program's own steps.
RetryInit == InitWith(ConfigInits, JarInits, 0)

RetryNext ==
  \/ Internal(OnAlarm)
  \/ \E a \in Slots : Internal(CheckConfig(a))
  \/ \E a \in Slots : Internal(ReadNextDomain(a))
  \/ \E a \in Slots : Internal(CheckCookies(a))
  \/ \E a \in Slots, r \in Responses, lost \in BOOLEAN : Internal(BackendHandles(a, r, lost))
  \/ \E a \in Slots : Internal(ResponseArrives(a))
  \/ \E a \in Slots : Internal(ReturnSuccess(a))
  \/ \E a \in Slots : Internal(FetchFails(a))
  \/ \E a \in Slots : Internal(Settle(a))

\* the alarm created without periodInMinutes: nothing makes it fire again
RetrySpecOneShotAlarm ==
  /\ RetryInit
  /\ [][RetryNext]_vars
  /\ \A a \in Slots : WF_vars(Internal(Resume(a)))

RetrySpec ==
  /\ RetryInit
  /\ [][RetryNext]_vars
  /\ \A a \in Slots : WF_vars(Internal(Resume(a)))
  /\ WF_vars(Internal(OnAlarm))

\* The popup's save button between calls of syncCookies(): one more event
\* than Spec allows, so that a save falls between two Attempts.
ConfigInit == InitWith(ConfigInits, {LoggedInJar}, MaxEvents + 1)

ConfigNext ==
  \/ External(OnAlarm)
  \/ \E u \in UrlInputs, k \in KeyInputs : External(Save(u, k))
  \/ \E a \in Slots : Internal(CheckConfig(a))
  \/ \E a \in Slots : Internal(ReadNextDomain(a))
  \/ \E a \in Slots : Internal(CheckCookies(a))
  \/ \E a \in Slots, r \in Responses, lost \in BOOLEAN : Internal(BackendHandles(a, r, lost))
  \/ \E a \in Slots : Internal(ResponseArrives(a))
  \/ \E a \in Slots : Internal(ReturnSuccess(a))
  \/ \E a \in Slots : Internal(FetchFails(a))
  \/ \E a \in Slots : Internal(Settle(a))

ConfigSpec == ConfigInit /\ [][ConfigNext]_vars

\* getTwitterCookies() on every jar: the popup's read and the read of a
\* call of syncCookies(), with the jar at rest.
AllJars == [JarDomains -> [Names -> Values \cup {None}]]

MergeInit == InitWith({ValidConfig}, AllJars, 0)

MergeNext ==
  \/ Internal(GetCookies)
  \/ Internal(GetCookiesNext)
  \/ Internal(OnAlarm)
  \/ \E a \in Slots : Internal(CheckConfig(a))
  \/ \E a \in Slots : Internal(ReadNextDomain(a))

MergeSpec == MergeInit /\ [][MergeNext]_vars

\* Calls of syncCookies() that overlap while time passes: the alarm and the
\* clock, two events more than Spec allows.
ClockInit == InitWith({ValidConfig}, {LoggedInJar}, MaxEvents + 2)

ClockNext ==
  \/ External(OnAlarm)
  \/ External(Tick)
  \/ \E a \in Slots : Internal(CheckConfig(a))
  \/ \E a \in Slots : Internal(ReadNextDomain(a))
  \/ \E a \in Slots : Internal(CheckCookies(a))
  \/ \E a \in Slots, r \in Responses, lost \in BOOLEAN : Internal(BackendHandles(a, r, lost))
  \/ \E a \in Slots : Internal(ResponseArrives(a))
  \/ \E a \in Slots : Internal(ReturnSuccess(a))
  \/ \E a \in Slots : Internal(FetchFails(a))
  \/ \E a \in Slots : Internal(Settle(a))

ClockSpec == ClockInit /\ [][ClockNext]_vars

\* The save button from a browser in which nothing has been saved yet.
SaveInit == InitWith({NoConfig}, {LoggedInJar}, MaxEvents + 1)

SaveSpec == SaveInit /\ [][ConfigNext]_vars

\* A logged-in browser whose anti-forgery cookie is still rewritten a few
\* times and then rests, a backend that takes every POST and answers 2xx,
\* and the periodic alarm.
BackendAccepts(a) ==
  \E r \in {x \in Responses : x.ok} : BackendHandles(a, r, FALSE)

ConvergeInit == InitWith({ValidConfig}, {LoggedInJar}, MaxEvents)

ConvergeNext ==
  \/ \E d \in JarDomains, v \in DebounceValues : External(CookieSet(d, "ct0", v))
  \/ Internal(OnAlarm)
  \/ \E a \in Slots : Internal(CheckConfig(a))
  \/ \E a \in Slots : Internal(ReadNextDomain(a))
  \/ \E a \in Slots : Internal(CheckCookies(a))
  \/ \E a \in Slots : Internal(BackendAccepts(a))
  \/ \E a \in Slots : Internal(ResponseArrives(a))
  \/ \E a \in Slots : Internal(ReturnSuccess(a))
  \/ \E a \in Slots : Internal(Settle(a))

\* the alarm created without periodInMinutes, under the same backend
ConvergeSpecOneShotAlarm ==
  /\ ConvergeInit
  /\ [][ConvergeNext]_vars
  /\ \A a \in Slots : WF_vars(Internal(Resume(a)))
  /\ \A a \in Slots : WF_vars(Internal(BackendAccepts(a)))

ConvergeSpec ==
  /\ ConvergeInit
  /\ [][ConvergeNext]_vars
  /\ \A a \in Slots : WF_vars(Internal(Resume(a)))
  /\ \A a \in Slots : WF_vars(Internal(BackendAccepts(a)))
  /\ WF_vars(Internal(OnAlarm))

\* The bookmark functions of the web page, called by the tweet cards and
\* by the sidebar.
BookmarkInit == InitWith({NoConfig}, {LoggedOutJar}, MaxEvents + 2)

BookmarkNext ==
  \/ \E t \in Tweets : PageEvent(saveBookmark(t))
  \/ \E t \in Tweets : PageEvent(handleBookmark(t))
  \/ \E id \in TweetIds : PageEvent(removeBookmark(id))
  \/ PageEvent(clearAllBookmarks)

BookmarkSpec == BookmarkInit /\ [][BookmarkNext]_vars

\* The search box, the trending buttons and the profile clicks of the web
\* page, with the backend answering in any order.
PageInit == InitWith({NoConfig}, {LoggedOutJar}, MaxEvents + 1)

PageNext ==
  \/ \E q \in QueryInputs : PageEvent(TypeQuery(q))
  \/ PageEvent(handleSearch)
  \/ \E name \in TrendNames : PageEvent(ClickTrend(name))
  \/ \E u \in Users : PageEvent(handleUserClick(u))
  \/ \E i \in 1..Len(page.pending), ok \in BOOLEAN : PageStep(SearchSettles(i, ok))
  \/ \E i \in 1..Len(loads), ok \in BOOLEAN : PageStep(ProfileResponds(i, ok))
  \/ \E i \in 1..Len(loads), ok \in BOOLEAN : PageStep(TweetsResponds(i, ok))
  \/ \E i \in 1..Len(loads) : PageStep(LoadSettles(i))

PageSpec == PageInit /\ [][PageNext]_vars

\* ------------------------------------------------------------------ claims
Uploading(a) == att[a].pc = "fetching"

Complete(cookies) ==
  /\ cookies["auth_token"] \notin {None, ""}
  /\ cookies["ct0"] \notin {None, ""}

Unconfigured(cfg) ==
  ~cfg.stored \/ Len(cfg.backendUrl) = 0 \/ Len(cfg.apiKey) = 0

\* C1: a trigger that arrives while an upload is in flight starts no further
\* Attempt, so the whole group of triggers shares one POST.
C1_TriggersWhileUploadingStartNoAttempt ==
  [][(\E a \in Slots : Uploading(a))
       => \A b \in Slots : att[b].pc = "free" => att'[b].pc = "free"]_vars

\* C2: in every reachable state at most one upload attempt is in flight.
C2_AtMostOneUploadInFlight ==
  Cardinality({a \in Slots : Uploading(a)}) <= 1

\* C3: the backend never receives the credentials of an older read after
\* those of a newer read: the POST of an Attempt whose read is older than
\* one the backend has stored does not change the backend's copy.
C3_BackendNeverGoesBackToOlderRead ==
  [][\A a \in Slots :
       (att[a].req = "sent" /\ att[a].stale /\ att'[a].req # "sent")
         => backend'.cookies = backend.cookies]_vars

\* C4: an Attempt started while the stored backendUrl or apiKey is empty or
\* absent takes the configuration stored at its start and ends with Failure
\* 'Not configured', with no HTTP request, no cookie read and no write of
\* lastSync.
C4_NotConfiguredFailsFast ==
  [][\A a \in Slots :
       /\ (att[a].pc = "free" /\ att'[a].pc # "free") => att'[a].cfg = config
       /\ (att[a].pc = "config" /\ Unconfigured(att[a].cfg) /\ att'[a] # att[a])
            => /\ att'[a].pc = "done"
               /\ att'[a].outcome = [success |-> FALSE, text |-> "Not configured"]
               /\ att'[a].posts = 0
               /\ att'[a].reads = 0
               /\ ~att'[a].wrote
               /\ lastSync' = lastSync
               /\ backend' = backend]_vars

C4_Witness ==
  \E a \in Slots :
    /\ att[a].pc = "done"
    /\ att[a].outcome.text = NotConfiguredMsg
    /\ config.stored
    /\ config.backendUrl # <<>>
    /\ config.apiKey = <<>>

\* C5: a POST is only ever issued with a complete credential set; an Attempt
\* whose read is incomplete ends with Failure 'Not logged into Twitter' and
\* makes no network call.
C5_IncompleteNeverUploaded ==
  [][\A a \in Slots :
       /\ (att'[a].req = "sent" /\ att[a].req # "sent") => Complete(att'[a].cookies)
       /\ (/\ att[a].pc = "reading"
           /\ att[a].di = Len(domains)
           /\ ~Complete(att[a].cookies)
           /\ att'[a] # att[a])
            => /\ att'[a].pc = "done"
               /\ att'[a].outcome = [success |-> FALSE, text |-> "Not logged into Twitter"]
               /\ att'[a].posts = 0
               /\ backend' = backend]_vars

C5_Witness ==
  \E a \in Slots :
    /\ att[a].pc = "done"
    /\ att[a].outcome.text = NotLoggedInMsg
    /\ att[a].reads = Len(domains)
    /\ att[a].posts = 0
    /\ jar = LoggedOutJar

\* C6: for a valid configuration and a complete credential set, any 2xx
\* response makes the Attempt store lastSync (a time not before the
\* Attempt's start: the clock never goes back) and yield Success with the
\* server's message.
C6_Any2xxIsSuccess ==
  [][\A a \in Slots :
       /\ (att[a].pc = "fetching" /\ att[a].req = "answered" /\ att[a].resp.ok
           /\ att'[a] # att[a])
            => att'[a].pc = "stored" /\ lastSync' >= clock
       /\ (att[a].pc = "stored" /\ att'[a] # att[a])
            => /\ att'[a].pc = "done"
               /\ att'[a].outcome = [success |-> TRUE, text |-> att[a].resp.message]]_vars

\* C7: any non-2xx response makes the Attempt yield Failure with the server's
\* detail when the body carries one, and the generic message otherwise, a
\* response without a usable body included.
C7_Non2xxIsDetailOrGeneric ==
  [][\A a \in Slots :
       (att[a].pc = "fetching" /\ att[a].req = "answered" /\ ~att[a].resp.ok
        /\ att'[a] # att[a])
         => /\ att'[a].pc = "done"
            /\ att'[a].outcome =
                 [success |-> FALSE,
                  text |-> IF att[a].resp.usable /\ att[a].resp.detail \notin {None, ""}
                             THEN att[a].resp.detail
                             ELSE "Unknown error"]]_vars

C9_TransportErrorIsFailure ==
  [][\A a \in Slots :
       (att[a].pc = "fetching" /\ att[a].req \in {"sent", "lost"}
        /\ att'[a].pc # "fetching")
         => /\ att'[a].pc = "done"
            /\ att'[a].outcome = [success |-> FALSE, text |-> "Failed to fetch"]
            /\ lastSync' = lastSync]_vars

C9_Witness ==
  \E a \in Slots :
    /\ att[a].pc = "done"
    /\ att[a].outcome = Failure(FetchErrorMsg)
    /\ att[a].posts = 1
    /\ lastSync = 0

\* C10: every Attempt that has issued its POST eventually completes with a
\* SyncOutcome, even when the backend never answers.
C10_EveryUploadCompletes ==
  \A a \in Slots : (att[a].pc = "fetching") ~> (att[a].pc = "done")

\* the callbacks the cookie listener has scheduled and that have not run
CookieTimers(ts) == {i \in 1..Len(ts) : ts[i].kind = "cookie"}

Started(b) == att[b].pc = "free" /\ att'[b].pc # "free"

\* C11: a write of a cookie other than auth_token schedules and starts
\* nothing; a write of auth_token on twitter.com or x.com schedules exactly
\* one callback, due one debounce delay later; a callback runs only once its
\* delay has elapsed, starts exactly one Attempt and is gone; writes of other
\* cookies in between change none of this.
C11_OnlyAuthTokenStartsOneDelayedAttempt ==
  [][/\ (\E d \in EventDomains, n \in Names \ {"auth_token"}, v \in Values :
           CookieSet(d, n, v))
          => timers' = timers /\ att' = att
     /\ (\E d \in JarDomains, v \in Values : CookieSet(d, "auth_token", v))
          => /\ timers' = Append(timers, [kind |-> "cookie", rem |-> CookieDelay])
             /\ att' = att
     /\ (\E b \in Slots : Started(b))
          => /\ Cardinality({b \in Slots : Started(b)}) = 1
             /\ \E i \in 1..Len(timers) :
                  /\ timers[i].rem = 0
                  /\ timers' = SubSeq(timers, 1, i - 1) \o SubSeq(timers, i + 1, Len(timers))
     /\ Len(timers') < Len(timers) => \E b \in Slots : Started(b)
     /\ Len(timers') = Len(timers)
          => \A i \in 1..Len(timers) :
               \/ timers'[i] = timers[i]
               \/ /\ clock' = clock + 1
                  /\ timers'[i].kind = timers[i].kind
                  /\ timers'[i].rem = timers[i].rem - 1]_vars

C11_Witness ==
  /\ \E a \in Slots : att[a].pc = "config"
  /\ timers = <<>>
  /\ clock = 1 + CookieDelay
  /\ jar["x.com"]["auth_token"] = "v2"
  /\ jar["x.com"]["ct0"] = "v2"

\* C12: while a debounce window is pending, a further auth_token write
\* schedules no further Attempt and does not move the pending one: the number
\* of scheduled callbacks does not grow.
C12_WritesInWindowAreAbsorbed ==
  [][CookieTimers(timers) # {}
       => Cardinality(CookieTimers(timers')) <= Cardinality(CookieTimers(timers))]_vars

\* C13: the removal of a cookie, auth_token included, schedules no callback
\* and starts no Attempt.
C13_RemovalNeverSchedules ==
  [][(\E d \in EventDomains, n \in Names : CookieRemoved(d, n))
       => timers' = timers /\ att' = att]_vars

C13_Witness ==
  /\ evLeft = MaxEvents + 2
  /\ jar["x.com"]["auth_token"] = None
  /\ jar["x.com"]["ct0"] = "v1"
  /\ timers = <<>>
  /\ \A a \in Slots : att[a].pc = "free"

\* C14: no failure is fatal.  The step in which an Attempt ends in Failure
\* changes nothing but that Attempt; while a failed Attempt is there, the
\* alarm and syncNow are still taken; and every Attempt that starts, starts
\* from scratch with the stored configuration, whatever ended before it.
C14_NoFailureIsFatal ==
  [][/\ \A a \in Slots :
          /\ (att[a].pc # "done" /\ att'[a].pc = "done" /\ ~att'[a].outcome.success)
               => /\ \A b \in Slots \ {a} : att'[b] = att[b]
                  /\ config' = config /\ jar' = jar /\ lastSync' = lastSync
                  /\ timers' = timers /\ installed' = installed
                  /\ started' = started /\ backend' = backend
          /\ Started(a)
               => att'[a] = [Free EXCEPT !.pc = "config", !.reply = att'[a].reply,
                                         !.cfg = config]
     /\ ((\E a \in Slots : att[a].pc = "done" /\ ~att[a].outcome.success)
           /\ (\E b \in Slots : att[b].pc = "free"))
          => ENABLED OnAlarm /\ ENABLED OnSyncNow]_vars

C14_Witness ==
  \E a, b \in Slots :
    /\ att[a].pc = "done" /\ att[a].outcome = Failure(FetchErrorMsg)
    /\ att[b].pc = "done" /\ att[b].outcome = Success("ok")

\* C15: after an Attempt has ended in Failure, another Attempt eventually
\* starts with nobody acting: from a state with a failed Attempt and no
\* Attempt at its start, a state with an Attempt at its start is reached.
C15_FailureIsEventuallyRetried ==
  \A a \in Slots :
    (/\ att[a].pc = "done" /\ ~att[a].outcome.success
     /\ \A b \in Slots : att[b].pc # "config")
      ~> (\E b \in Slots : att[b].pc = "config")

C15_Witness ==
  \E a, b \in Slots :
    /\ att[a].pc = "done" /\ ~att[a].outcome.success
    /\ att[b].pc = "config"
    /\ lastSync = 0

Running(r) == r.pc \notin {"free", "done"}

\* C16: an Attempt takes the configuration stored when it starts, keeps it
\* until it ends whatever is saved meanwhile, and the POST it issues goes to
\* that backendUrl with that apiKey: a save between two Attempts is what the
\* second one uses.
C16_AttemptUsesConfigStoredAtStart ==
  [][\A a \in Slots :
       /\ Started(a) => att'[a].cfg = config
       /\ (Running(att[a]) /\ Running(att'[a])) => att'[a].cfg = att[a].cfg
       /\ (att[a].req # "sent" /\ att'[a].req = "sent")
            => /\ PostRequest(att'[a]).url = att[a].cfg.backendUrl \o <<"/api/cookies/sync">>
               /\ PostRequest(att'[a]).apiKey = att[a].cfg.apiKey]_vars

C16_Witness ==
  \E a, b \in Slots :
    /\ att[a].req = "sent" /\ att[a].cfg.backendUrl = <<"h">>
    /\ att[b].req = "sent" /\ att[b].cfg.backendUrl = <<"h", "/">>
    /\ config.backendUrl = <<"h", "/">>

\* C17: a syncNow request starts its Attempt in the very step the message
\* is handled, with no timer in between; the Attempt's outcome is passed to
\* sendResponse once, unchanged; and every such request is eventually
\* answered.
C17_SyncNowIsAnsweredOnce ==
  /\ [][\A a \in Slots :
          /\ (Started(a) /\ att'[a].reply)
               => att'[a].pc = "config" /\ timers' = timers /\ clock' = clock
          /\ (att[a].pc = "done" /\ att[a].reply)
               => att'[a] = att[a] \/ att'[a] = Free]_vars
  /\ \A a \in Slots :
       (att[a].reply /\ Running(att[a])) ~> (att[a].reply /\ att[a].pc = "done")

\* C18: a getCookies request only reads.  Every step of it leaves the
\* Attempts, the timers, lastSync, the stored configuration, the jar and the
\* backend alone; it queries the domains in order, merging each domain's
\* cookies over those read before, and answers once the last is read.
C18_GetCookiesOnlyReads ==
  [][/\ gc' # gc
          => /\ att' = att /\ order' = order /\ timers' = timers
             /\ lastSync' = lastSync /\ config' = config
             /\ jar' = jar /\ backend' = backend
     /\ (gc.pc = "idle" /\ gc'.pc = "reading")
          => gc'.di = 1 /\ gc'.cookies = jar[domains[1]]
     /\ (gc.pc = "reading" /\ gc'.pc = "reading" /\ gc' # gc)
          => /\ gc'.di = gc.di + 1
             /\ \A n \in Names :
                  gc'.cookies[n] = IF jar[domains[gc'.di]][n] # None
                                     THEN jar[domains[gc'.di]][n]
                                     ELSE gc.cookies[n]
     /\ (gc.pc = "reading" /\ gc'.pc = "idle") => gc.di = Len(domains)]_vars

C18_Witness ==
  /\ gc.pc = "reading"
  /\ gc.di = Len(domains)
  /\ gc.cookies = [n \in Names |-> "v1"]
  /\ \A a \in Slots : att[a].pc = "free"
  /\ lastSync = 0

\* C19: the popup's read never waits for an upload or for a pending
\* callback: whatever the Attempts and the timers are doing, a getCookies
\* message can be taken and a read under way can take its next step.
C19_GetCookiesNeverWaits ==
  /\ gc.pc = "idle" => ENABLED GetCookies
  /\ gc.pc = "reading" => ENABLED GetCookiesNext

C19_Witness ==
  /\ gc.pc = "reading"
  /\ gc.di = Len(domains)
  /\ \/ \E a \in Slots : Uploading(a)
     \/ \E i \in 1..Len(timers) : timers[i].kind = "cookie" /\ timers[i].rem > 0

\* C20: an alarm that fires while an upload is in flight is dropped: in such
\* a state no call of syncCookies() is started by the alarm's listener (a
\* call whose result is only logged, started with no timer behind it).
C20_AlarmWhileUploadingIsDropped ==
  [][(\E a \in Slots : Uploading(a))
       => ~\E b \in Slots :
             /\ Started(b)
             /\ ~att'[b].reply
             /\ timers' = timers]_vars

\* C21: an auth_token write on a domain other than twitter.com and x.com
\* schedules no callback, a domain whose name only contains one of the two
\* names included.
C21_OnlyConfiguredDomainsTrigger ==
  [][(/\ \E d \in EventDomains \ JarDomains, v \in Values : CookieSet(d, "auth_token", v)
      /\ ~\E d \in JarDomains, v \in Values : CookieSet(d, "auth_token", v))
       => timers' = timers /\ att' = att]_vars

\* what the claim expects of a read of jar j: the x.com value of a name
\* when x.com has it, its twitter.com value otherwise
LastReadWins(j) ==
  [n \in Names |-> IF j["x.com"][n] # None THEN j["x.com"][n] ELSE j["twitter.com"][n]]

\* C22: a finished read of the jar, the popup's or an Attempt's, is the merge
\* of twitter.com and then x.com with last-read-wins, a function of the
\* jar's contents alone.
C22_ReadIsLastReadWinsMerge ==
  /\ (gc.pc = "reading" /\ gc.di = Len(domains)) => gc.cookies = LastReadWins(jar)
  /\ \A a \in Slots :
       (att[a].pc = "reading" /\ att[a].di = Len(domains))
         => att[a].cookies = LastReadWins(jar)

C22_Witness ==
  /\ gc.pc = "reading" /\ gc.di = Len(domains)
  /\ jar["twitter.com"]["auth_token"] = "v1"
  /\ jar["x.com"]["auth_token"] = "v2"
  /\ jar["twitter.com"]["ct0"] = "v1"
  /\ jar["x.com"]["ct0"] = None
  /\ gc.cookies = [n \in Names |-> IF n = "auth_token" THEN "v2" ELSE "v1"]

\* C23: an Attempt started by the cookie listener's callback starts with no
\* cookie value at all; each step of its read takes the jar as it is at that
\* step, after the delay; and the body of its POST is what that read gave.
C23_UploadIsTheReadAfterTheDelay ==
  [][\A a \in Slots :
       /\ Started(a) => att'[a].cookies = [n \in Names |-> None]
       /\ att'[a].reads = att[a].reads + 1
            => \A n \in Names :
                 att'[a].cookies[n] =
                   IF jar[domains[att'[a].di]][n] # None
                     THEN jar[domains[att'[a].di]][n]
                     ELSE att[a].cookies[n]
       /\ (att[a].req # "sent" /\ att'[a].req = "sent")
            => PostRequest(att'[a]).cookies = att[a].cookies]_vars

C23_Witness ==
  /\ clock >= 1 + CookieDelay
  /\ jar["x.com"] = [n \in Names |-> "v2"]
  /\ \E a \in Slots :
       /\ att[a].req = "sent"
       /\ PostRequest(att[a]).cookies = [n \in Names |-> "v2"]

\* C24: an Attempt issues at most one POST: a POST is issued only by an
\* Attempt that has issued none, on leaving its read, and an Attempt that has
\* ended has issued at most one, whatever its outcome.
C24_AtMostOnePostPerAttempt ==
  [][\A a \in Slots :
       /\ att'[a].posts <= 1
       /\ att'[a].posts > att[a].posts
            => att[a].pc = "reading" /\ att[a].posts = 0 /\ att'[a].pc = "fetching"
       /\ (att[a].pc = "fetching" /\ att'[a] # att[a])
            => att'[a].posts = att[a].posts]_vars

C24_Witness ==
  \E a \in Slots :
    /\ att[a].pc = "done"
    /\ att[a].outcome = Failure(JsonErrorMsg)
    /\ att[a].posts = 1

\* C25: lastSync (0 when absent) is first written by an Attempt that has
\* received a 2xx answer, never decreases and, once written, is never
\* removed, however the Attempts overlap and in whatever order they end.
C25_LastSyncIsMonotonic ==
  [][/\ lastSync' >= lastSync
     /\ lastSync # 0 => lastSync' # 0
     /\ (lastSync = 0 /\ lastSync' # 0)
          => \E a \in Slots :
               /\ att[a].req = "answered" /\ att[a].resp.ok
               /\ ~att[a].wrote /\ att'[a].wrote
     /\ (\E a \in Slots : att'[a].wrote) => lastSync' # 0]_vars

C25_Witness ==
  /\ clock > 1
  /\ lastSync = clock
  /\ \E a, b \in Slots :
       /\ a # b
       /\ att[a].stale /\ att[a].wrote
       /\ att[b].wrote /\ ~att[b].stale

\* C26: the stored configuration is absent, or has a non-empty backendUrl
\* that does not end in '/' and a non-empty apiKey; and a save whose trimmed
\* url (its trailing slash stripped) or trimmed key is empty leaves the
\* stored configuration as it was.
C26_StoredConfigIsWellFormed ==
  /\ [](\/ config = [stored |-> FALSE, backendUrl |-> <<>>, apiKey |-> <<>>]
        \/ /\ config.stored
           /\ config.backendUrl # <<>>
           /\ config.apiKey # <<>>
           /\ config.backendUrl[Len(config.backendUrl)] # "/")
  /\ [][(\E u \in UrlInputs, k \in KeyInputs :
           /\ (u \in {<<>>, <<" ">>} \/ k = <<>>)
           /\ Save(u, k))
          => config' = config]_vars

\* C27: with a complete jar that comes to rest, a valid configuration and a
\* backend that accepts, the backend's copy eventually equals the browser's
\* cookies and stays equal.
C27_BackendConverges ==
  <>[](backend.cookies = LastReadWins(jar))

C27_Witness ==
  /\ evLeft = 0
  /\ jar["x.com"]["ct0"] = "v2"
  /\ jar["twitter.com"]["ct0"] = "v2"
  /\ backend.cookies = LastReadWins(jar)
  /\ \E a \in Slots : att[a].stale

Ids(l) == {l[i].id : i \in 1..Len(l)}

\* C28: the stored bookmark list never holds two tweets of one id; saving an
\* id that is there leaves the list as it is, a new tweet goes first,
\* removeBookmark(id) takes out the entry of that id and keeps the others in
\* order, clearAllBookmarks leaves none, and isBookmarked(id) is true exactly
\* for the ids of the list.
C28_BookmarksHoldEachIdOnce ==
  /\ [](/\ Cardinality(Ids(getBookmarks)) = Len(getBookmarks)
        /\ \A id \in TweetIds : isBookmarked(id) <=> id \in Ids(getBookmarks))
  /\ [][/\ \A t \in Tweets :
             saveBookmark(t)
               => Bookmarks(bookmarks') =
                    IF t.id \in Ids(getBookmarks)
                      THEN getBookmarks
                      ELSE <<t>> \o getBookmarks
        /\ \A id \in TweetIds :
             removeBookmark(id)
               => Bookmarks(bookmarks') = SelectSeq(getBookmarks, LAMBDA b : b.id # id)
        /\ clearAllBookmarks => Bookmarks(bookmarks') = <<>>]_vars

C28_Witness ==
  /\ evLeft = 0
  /\ getBookmarks = <<[id |-> "t3", text |-> "a"], [id |-> "t1", text |-> "a"]>>

\* C29: the click of a trending-topic button calls searchTweets() with the
\* name of that topic, whatever the search box held.
C29_TrendClickSearchesItsName ==
  [][\A name \in TrendNames :
       ClickTrend(name) => page'.searched = Append(page.searched, name)]_vars

\* C30: profileLoading is false only when no profile load is in flight; and
\* once the loads have settled with the profile view shown, the profile and
\* the timeline are those of the user clicked last.
C30_LastClickedProfileIsShown ==
  /\ ~page.profileLoading => loads = <<>>
  /\ (loads = <<>> /\ page.view = "profile" /\ page.lastClicked # None)
       => /\ page.selectedUser = page.lastClicked
          /\ page.userTimeline = page.lastClicked

====
